---- MODULE Spec2Model ----
\* Agent Memory API: the encrypted, TTL-bounded record store
\* (src/database.py), the access gate (src/payment.py) and the HTTP handlers
\* that compose them (src/main.py).
\*
\* Every handler is one action.  The handlers are coroutines of a single
\* asyncio event loop and none of them contains a suspension point: each
\* `await` is of a coroutine (verify_payment_token, the db methods) whose body
\* does only synchronous work, so a handler runs to completion before another
\* one starts.  Concurrent requests are therefore handled one after the other,
\* in an arbitrary order, which is what Next allows.
\*
\* Time: one tick of `now` is half a day of UTC time.  A created_at timestamp
\* is only ever compared with other created_at timestamps, and successive
\* store calls read strictly increasing clocks, so created_at is modelled by
\* its rank `seq`, the number of store calls made so far.  Fields no operation
\* reads (metadata, the owner account's created_at) are left out.
EXTENDS Integers, Sequences, FiniteSets, TLC

\* ------------------------------------------------------------- bounds
MaxCredits == 3
MaxStores == 2
MaxTime == 3
MaxAccess == 1
MaxSearchStores == 3

\* ------------------------------------------------- program constants
\* timedelta(days=ttl_days): ticks in a day.
DayTicks == 2
\* `limit=search.limit or 10`
DefaultLimit == 10
\* decrypted_content[:200]
PreviewLen == 200

\* ------------------------------------------------------------ inputs
None == <<>>
Some(x) == <<x>>

Keys == {"k1", "k2"}
UnknownKey == "kx"
Agents == {"a1", "a2"}
\* Authorization header: absent, or <<prefix, rest>>.
Auths == {None, <<"", "k1">>, <<"Bearer ", "k1">>, <<"Bearer ", "k2">>,
          <<"Bearer ", UnknownKey>>}
Contents == {<<"H", "i">>}
Queries == {None, <<"h">>, <<"x">>}
TagLists == {<<>>, <<"x", "y">>}
TagFilters == {None, <<"y", "z">>}
TTLs == {None, Some(-1), Some(0), Some(1)}
Limits == {None, Some(0), Some(1), Some(2)}
\* Ids a client may present: every id the store can issue, and one it never issues.
Ids == 0..MaxStores
\* Offset of the host's local clock from UTC, in ticks.
TzOffsets == {-1, 0, 1}

\* credits    the ledger: balance of every issued key (api_key_manager)
\* memories   db["memories"], in insertion order (a Python dict keeps it)
\* agents     db["agents"]: owner id -> counters
\* now        the UTC clock, in ticks
\* tz         offset of the host's local clock from UTC, in ticks
\* seq        number of store calls so far (orders timestamps within a tick)
\* response   what the last call returned: a handler's HTTP response, or the
\*            return value of a MemoryDatabase method
\* initial, debited, nStored, nDeleted   history: balances at start, credits
\*            debited by granted authorizations, stores and deletes that
\*            succeeded per owner
VARIABLES credits, memories, agents, now, tz, seq, response,
          initial, debited, nStored, nDeleted

vars == <<credits, memories, agents, now, tz, seq, response,
          initial, debited, nStored, nDeleted>>

\* ------------------------------------------------------- crypto codec
\* Fernet token: "gAAAAA" header and the AES-CBC/HMAC payload of the plaintext.
_encrypt(data) == <<"gAAAAA", data>>

DecryptOk(token) == Len(token) = 2 /\ token[1] = "gAAAAA"

_decrypt(token) == token[2]

\* len(encrypted_content): url-safe base64 of version(1) + time(8) + iv(16) +
\* PKCS7-padded ciphertext + hmac(32).
CipherLen(token) ==
    LET n == Len(token[2])
        raw == 57 + 16 * ((n \div 16) + 1)
    IN  4 * ((raw + 2) \div 3)

\* str.lower() on the alphabet of Contents and Queries.
LowerChar(c) ==
    CASE c = "H" -> "h"
      [] c = "I" -> "i"
      [] c = "Y" -> "y"
      [] c = "O" -> "o"
      [] OTHER -> c

lower(s) == [i \in 1..Len(s) |-> LowerChar(s[i])]

\* `needle in hay` for strings.
Contains(hay, needle) ==
    \E i \in 0..(Len(hay) - Len(needle)) :
        \A j \in 1..Len(needle) : hay[i + j] = needle[j]

\* ------------------------------------------------------ credit ledger
\* api_key_manager.validate_key: lookup by exact match.
validate_key(bal, api_key) ==
    IF api_key \in DOMAIN bal THEN Some(bal[api_key]) ELSE None

\* api_key_manager.deduct_credits: check and subtract in one step.
deduct_credits(bal, api_key, amount) ==
    IF api_key \in DOMAIN bal /\ bal[api_key] >= amount
    THEN [ok |-> TRUE, bal |-> [bal EXCEPT ![api_key] = @ - amount]]
    ELSE [ok |-> FALSE, bal |-> bal]

\* -------------------------------------------------------- access gate
\* cost_in_credits: int = 1, the cost every handler is charged.
DefaultCost == 1

\* A gate that grants a known key whatever deduct_credits answers.
verify_payment_token_IgnoresDeduct(bal, authorization, cost_in_credits) ==
    IF authorization = None \/ authorization[1] # "Bearer "
    THEN [ok |-> FALSE, bal |-> bal]
    ELSE LET api_key == authorization[2] IN
         IF validate_key(bal, api_key) = None
         THEN [ok |-> FALSE, bal |-> bal]
         ELSE [ok |-> TRUE, bal |-> deduct_credits(bal, api_key, cost_in_credits).bal]

\* A gate that does not look for the "Bearer " prefix.
verify_payment_token_NoPrefixCheck(bal, authorization, cost_in_credits) ==
    IF authorization = None
    THEN [ok |-> FALSE, bal |-> bal]
    ELSE LET api_key == authorization[2] IN
         IF validate_key(bal, api_key) = None
         THEN [ok |-> FALSE, bal |-> bal]
         ELSE deduct_credits(bal, api_key, cost_in_credits)

verify_payment_token(bal, authorization, cost_in_credits) ==
    IF authorization = None \/ authorization[1] # "Bearer "
    THEN [ok |-> FALSE, bal |-> bal]
    ELSE LET api_key == authorization[2] IN
         IF validate_key(bal, api_key) = None
         THEN [ok |-> FALSE, bal |-> bal]
         ELSE deduct_credits(bal, api_key, cost_in_credits)

\* -------------------------------------------------------- record store
\* datetime.utcnow()
UtcNow == now

\* datetime.now(None): the host's local wall clock.
LocalNow == now + tz

\* sha256(agent_id + content + utcnow().isoformat())[:16].  Successive calls
\* read strictly increasing timestamps, so the id is modelled by the
\* timestamp's sequence number.
_generate_memory_id(agent_id, content) == seq + 1

\* expires_at is the isoformat of a naive datetime, so parser.parse gives
\* tzinfo None and datetime.now(expiry.tzinfo) is the local wall clock.
_is_expired(expires_at) ==
    IF expires_at = None THEN FALSE ELSE LocalNow > expires_at[1]

\* Index of key memory_id in the dict, 0 when absent (dict.get -> None).
IndexOf(ms, memory_id) ==
    IF \E i \in 1..Len(ms) : ms[i].memory_id = memory_id
    THEN CHOOSE i \in 1..Len(ms) : ms[i].memory_id = memory_id
    ELSE 0

\* d[memory_id] = memory: replaces in place, or appends a new key.
DictSet(ms, memory_id, memory) ==
    LET i == IndexOf(ms, memory_id) IN
    IF i = 0 THEN Append(ms, memory) ELSE [ms EXCEPT ![i] = memory]

\* del d[memory_id]
DictDel(ms, memory_id) ==
    LET i == IndexOf(ms, memory_id) IN
    SubSeq(ms, 1, i - 1) \o SubSeq(ms, i + 1, Len(ms))

\* ISO-8601 strings of one format compare as the instants they denote.
CreatedBefore(c1, c2) == c1 < c2

store_memory(db, agent_id, content, tags, ttl_days) ==
    LET agents1 == IF agent_id \in DOMAIN db.agents
                   THEN db.agents
                   ELSE db.agents @@ (agent_id :> [total_memories |-> 0,
                                                   storage_used |-> 0])
        memory_id == _generate_memory_id(agent_id, content)
        encrypted_content == _encrypt(content)
    IN
    IF ttl_days = None
    THEN \* `ttl_days > 0` raises TypeError before anything is written
         [raised |-> TRUE, db |-> db, ret |-> None]
    ELSE
    LET expires_at == IF ttl_days[1] > 0
                      THEN Some(UtcNow + ttl_days[1] * DayTicks)
                      ELSE None
        memory == [memory_id |-> memory_id, agent_id |-> agent_id,
                   content |-> encrypted_content, tags |-> tags,
                   created_at |-> seq + 1,
                   expires_at |-> expires_at,
                   access_count |-> 0, last_accessed |-> None]
        agents2 == [agents1 EXCEPT
                     ![agent_id].total_memories = @ + 1,
                     ![agent_id].storage_used = @ + CipherLen(encrypted_content)]
    IN  [raised |-> FALSE,
         db |-> [memories |-> DictSet(db.memories, memory_id, memory),
                 agents |-> agents2],
         ret |-> Some([memory_id |-> memory_id, agent_id |-> agent_id,
                       created_at |-> memory.created_at,
                       expires_at |-> expires_at])]

\* A retrieve that counts the access before it tries to decrypt.
retrieve_memory_CountsFirst(db, memory_id) ==
    LET i == IndexOf(db.memories, memory_id) IN
    IF i = 0 THEN [db |-> db, ret |-> None]
    ELSE
    LET memory == db.memories[i]
        m2 == [memory EXCEPT !.access_count = @ + 1,
                             !.last_accessed = Some(UtcNow)]
    IN
    IF _is_expired(memory.expires_at)
    THEN [db |-> [db EXCEPT !.memories = DictDel(db.memories, memory_id)],
          ret |-> None]
    ELSE IF ~DecryptOk(memory.content)
    THEN [db |-> [db EXCEPT !.memories[i] = m2], ret |-> None]
    ELSE [db |-> [db EXCEPT !.memories[i] = m2],
          ret |-> Some([m2 EXCEPT !.content = _decrypt(memory.content)])]

\* A retrieve that writes back the count of a snapshot read before any
\* other retrieve's increment.
retrieve_memory_StaleCount(db, memory_id) ==
    LET i == IndexOf(db.memories, memory_id) IN
    IF i = 0 THEN [db |-> db, ret |-> None]
    ELSE
    LET memory == db.memories[i] IN
    IF _is_expired(memory.expires_at)
    THEN [db |-> [db EXCEPT !.memories = DictDel(db.memories, memory_id)],
          ret |-> None]
    ELSE IF ~DecryptOk(memory.content)
    THEN [db |-> db, ret |-> None]
    ELSE
    LET m2 == [memory EXCEPT !.access_count = 1,
                             !.last_accessed = Some(UtcNow)]
    IN  [db |-> [db EXCEPT !.memories[i] = m2],
         ret |-> Some([m2 EXCEPT !.content = _decrypt(memory.content)])]

retrieve_memory(db, memory_id) ==
    LET i == IndexOf(db.memories, memory_id) IN
    IF i = 0 THEN [db |-> db, ret |-> None]
    ELSE
    LET memory == db.memories[i] IN
    IF _is_expired(memory.expires_at)
    THEN [db |-> [db EXCEPT !.memories = DictDel(db.memories, memory_id)],
          ret |-> None]
    ELSE IF ~DecryptOk(memory.content)
    THEN [db |-> db, ret |-> None]
    ELSE
    LET m2 == [memory EXCEPT !.access_count = @ + 1,
                             !.last_accessed = Some(UtcNow)]
    IN  [db |-> [db EXCEPT !.memories[i] = m2],
         ret |-> Some([m2 EXCEPT !.content = _decrypt(memory.content)])]

\* A tag filter that asks for every requested tag (AND).
SearchKeeps_AllTags(memory, agent_id, query, tags) ==
    /\ memory.agent_id = agent_id
    /\ ~_is_expired(memory.expires_at)
    /\ (tags = None \/ tags = <<>>
          \/ \A t \in 1..Len(tags) : \E u \in 1..Len(memory.tags) :
                 tags[t] = memory.tags[u])
    /\ (query = None \/ query = <<>>
          \/ (DecryptOk(memory.content)
              /\ Contains(lower(_decrypt(memory.content)), lower(query))))

\* The loop body of search_memories for one record: does it reach append?
SearchKeeps(memory, agent_id, query, tags) ==
    /\ memory.agent_id = agent_id
    /\ ~_is_expired(memory.expires_at)
    /\ (tags = None \/ tags = <<>>
          \/ \E t \in 1..Len(tags) : \E u \in 1..Len(memory.tags) :
                 tags[t] = memory.tags[u])
    /\ (query = None \/ query = <<>>
          \/ (DecryptOk(memory.content)
              /\ Contains(lower(_decrypt(memory.content)), lower(query))))

SearchEntry(memory, query) ==
    [memory_id |-> memory.memory_id, tags |-> memory.tags,
     content_preview |->
        IF query = None \/ query = <<>>
        THEN <<"[Encrypted]">>
        ELSE SubSeq(_decrypt(memory.content), 1,
                    IF Len(_decrypt(memory.content)) < PreviewLen
                    THEN Len(_decrypt(memory.content)) ELSE PreviewLen),
     created_at |-> memory.created_at,
     access_count |-> memory.access_count]

\* for memory_id, memory in db["memories"].items(): ... append;
\* if len(results) >= limit: break
RECURSIVE SearchScan(_, _, _, _, _, _, _)
SearchScan(ms, i, agent_id, query, tags, limit, results) ==
    IF i > Len(ms) THEN results
    ELSE IF ~SearchKeeps(ms[i], agent_id, query, tags)
    THEN SearchScan(ms, i + 1, agent_id, query, tags, limit, results)
    ELSE LET r2 == Append(results, SearchEntry(ms[i], query)) IN
         IF Len(r2) >= limit THEN r2
         ELSE SearchScan(ms, i + 1, agent_id, query, tags, limit, r2)

\* list.sort(key=created_at, reverse=True): stable, newest first.
InsertDesc(sorted, x) ==
    LET k == Cardinality({j \in 1..Len(sorted) :
                            ~CreatedBefore(sorted[j].created_at, x.created_at)})
    IN  SubSeq(sorted, 1, k) \o <<x>> \o SubSeq(sorted, k + 1, Len(sorted))

RECURSIVE SortDesc(_, _, _)
SortDesc(xs, i, acc) ==
    IF i > Len(xs) THEN acc ELSE SortDesc(xs, i + 1, InsertDesc(acc, xs[i]))

\* A search that sorts every match and then keeps the newest `limit`.
search_memories_SortThenCap(db, agent_id, query, tags, limit) ==
    LET all == SortDesc(SearchScan(db.memories, 1, agent_id, query, tags,
                                   Len(db.memories) + 1, <<>>), 1, <<>>)
    IN  SubSeq(all, 1, IF Len(all) < limit THEN Len(all) ELSE limit)

search_memories(db, agent_id, query, tags, limit) ==
    SortDesc(SearchScan(db.memories, 1, agent_id, query, tags, limit, <<>>),
             1, <<>>)

\* A delete that takes the record off the owner's counter twice.
delete_memory_CountsTwice(db, memory_id, agent_id) ==
    LET i == IndexOf(db.memories, memory_id) IN
    IF i = 0 \/ db.memories[i].agent_id # agent_id
    THEN [db |-> db, ret |-> FALSE]
    ELSE
    LET storage == CipherLen(db.memories[i].content) IN
    [db |-> [memories |-> DictDel(db.memories, memory_id),
             agents |-> [db.agents EXCEPT
                           ![agent_id].total_memories = @ - 2,
                           ![agent_id].storage_used = @ - storage]],
     ret |-> TRUE]

\* A delete whose removal is undone by a write-back of the store as it was
\* read before the delete: the counters go down, the record is still there.
delete_memory_RecordRestored(db, memory_id, agent_id) ==
    LET i == IndexOf(db.memories, memory_id) IN
    IF i = 0 \/ db.memories[i].agent_id # agent_id
    THEN [db |-> db, ret |-> FALSE]
    ELSE
    LET storage == CipherLen(db.memories[i].content) IN
    [db |-> [memories |-> db.memories,
             agents |-> [db.agents EXCEPT
                           ![agent_id].total_memories = @ - 1,
                           ![agent_id].storage_used = @ - storage]],
     ret |-> TRUE]

\* A delete that does not compare the record's owner with the caller.
delete_memory_AnyOwner(db, memory_id, agent_id) ==
    LET i == IndexOf(db.memories, memory_id) IN
    IF i = 0
    THEN [db |-> db, ret |-> FALSE]
    ELSE
    LET owner == db.memories[i].agent_id
        storage == CipherLen(db.memories[i].content)
    IN  [db |-> [memories |-> DictDel(db.memories, memory_id),
                 agents |-> [db.agents EXCEPT
                               ![owner].total_memories = @ - 1,
                               ![owner].storage_used = @ - storage]],
         ret |-> TRUE]

delete_memory(db, memory_id, agent_id) ==
    LET i == IndexOf(db.memories, memory_id) IN
    IF i = 0 \/ db.memories[i].agent_id # agent_id
    THEN [db |-> db, ret |-> FALSE]
    ELSE
    LET storage == CipherLen(db.memories[i].content)
        agents2 == IF agent_id \in DOMAIN db.agents
                   THEN [db.agents EXCEPT
                           ![agent_id].total_memories = @ - 1,
                           ![agent_id].storage_used = @ - storage]
                   ELSE db.agents
    IN  [db |-> [memories |-> DictDel(db.memories, memory_id),
                 agents |-> agents2],
         ret |-> TRUE]

get_agent_stats(db, agent_id) ==
    IF agent_id \notin DOMAIN db.agents THEN None
    ELSE Some([agent_id |-> agent_id,
               active_memories |->
                  Cardinality({i \in 1..Len(db.memories) :
                      /\ db.memories[i].agent_id = agent_id
                      /\ ~_is_expired(db.memories[i].expires_at)}),
               total_memories_stored |-> db.agents[agent_id].total_memories,
               storage_used |-> db.agents[agent_id].storage_used])

\* The records cleanup_expired keeps, in order.
RECURSIVE KeepLive(_, _)
KeepLive(ms, i) ==
    IF i > Len(ms) THEN <<>>
    ELSE IF _is_expired(ms[i].expires_at) THEN KeepLive(ms, i + 1)
    ELSE <<ms[i]>> \o KeepLive(ms, i + 1)

cleanup_expired(db) ==
    LET kept == KeepLive(db.memories, 1) IN
    [db |-> [db EXCEPT !.memories = kept],
     ret |-> Len(db.memories) - Len(kept)]

\* ------------------------------------------------------ shared pieces
\* _read_db()
Db == [memories |-> memories, agents |-> agents]

\* _write_db(db)
WriteDb(db) ==
    /\ memories' = db.memories
    /\ agents' = db.agents

Ledger == <<credits, initial, debited>>

InitStore ==
    /\ memories = <<>>
    /\ agents = <<>>
    /\ now = 0
    /\ seq = 0
    /\ nStored = [a \in Agents |-> 0]
    /\ nDeleted = [a \in Agents |-> 0]
    /\ response = [op |-> "none", status |-> 0, body |-> None]

\* Time passes.
Tick ==
    /\ now < MaxTime
    /\ now' = now + 1
    /\ UNCHANGED <<Ledger, memories, agents, tz, seq, response, nStored, nDeleted>>

\* ------------------------------------- the record store, method by method
\* db.store_memory(...)
Store(agent_id, content, tags, ttl_days) ==
    LET r == store_memory(Db, agent_id, content, tags, ttl_days) IN
    /\ ~r.raised
    /\ WriteDb(r.db)
    /\ seq' = seq + 1
    /\ nStored' = [nStored EXCEPT ![agent_id] = @ + 1]
    /\ response' = [op |-> "store", status |-> 200, body |-> r.ret]
    /\ UNCHANGED <<Ledger, now, tz, nDeleted>>

\* db.retrieve_memory(memory_id)
Retrieve(memory_id) ==
    LET r == retrieve_memory(Db, memory_id) IN
    /\ \A i \in 1..Len(memories) :
          memories[i].memory_id = memory_id => memories[i].access_count < MaxAccess
    /\ WriteDb(r.db)
    /\ response' = [op |-> "retrieve",
                    status |-> IF r.ret = None THEN 404 ELSE 200,
                    body |-> r.ret]
    /\ UNCHANGED <<Ledger, now, tz, seq, nStored, nDeleted>>

\* A search that, like retrieve, drops the expired records it comes across.
Search_Reclaims(agent_id, query, tags, limit) ==
    /\ response' = [op |-> "search", status |-> 200,
                    body |-> search_memories(Db, agent_id, query, tags, limit)]
    /\ memories' = KeepLive(memories, 1)
    /\ UNCHANGED <<Ledger, agents, now, tz, seq, nStored, nDeleted>>

\* db.search_memories(agent_id, query, tags, limit)
Search(agent_id, query, tags, limit) ==
    /\ response' = [op |-> "search", status |-> 200,
                    body |-> search_memories(Db, agent_id, query, tags, limit)]
    /\ UNCHANGED <<Ledger, memories, agents, now, tz, seq, nStored, nDeleted>>

\* db.delete_memory(memory_id, agent_id)
Delete(memory_id, agent_id) ==
    LET r == delete_memory(Db, memory_id, agent_id) IN
    /\ WriteDb(r.db)
    /\ nDeleted' = IF r.ret THEN [nDeleted EXCEPT ![agent_id] = @ + 1]
                   ELSE nDeleted
    /\ response' = [op |-> "delete",
                    status |-> IF r.ret THEN 200 ELSE 404,
                    body |-> r.ret]
    /\ UNCHANGED <<Ledger, now, tz, seq, nStored>>

\* db.get_agent_stats(agent_id)
Stats(agent_id) ==
    /\ response' = [op |-> "stats", status |-> 200,
                    body |-> get_agent_stats(Db, agent_id)]
    /\ UNCHANGED <<Ledger, memories, agents, now, tz, seq, nStored, nDeleted>>

\* db.cleanup_expired()
ReclaimExpired ==
    LET r == cleanup_expired(Db) IN
    /\ WriteDb(r.db)
    /\ response' = [op |-> "cleanup", status |-> 200, body |-> r.ret]
    /\ UNCHANGED <<Ledger, now, tz, seq, nStored, nDeleted>>

\* self.cipher = Fernet(Fernet.generate_key()): with ENCRYPTION_KEY unset,
\* every start of the process draws a fresh key, and no token written by an
\* earlier process authenticates under it.  A token carries the "gAAAAA"
\* header while the key that wrote it is the running process's key.
Rekeyed(token) == <<"stale", token[2]>>

\* The process restarts without ENCRYPTION_KEY: the file is kept, the key is
\* not.
Restart ==
    /\ memories' = [i \in 1..Len(memories) |->
                       [memories[i] EXCEPT !.content = Rekeyed(@)]]
    /\ UNCHANGED <<Ledger, agents, now, tz, seq, response, nStored, nDeleted>>

InitDb ==
    /\ InitStore
    /\ tz \in TzOffsets
    /\ credits = [k \in Keys |-> MaxCredits]
    /\ initial = credits
    /\ debited = [k \in Keys |-> 0]

\* Tags are exercised by SpecSearch; here records carry none.
NextDb ==
    \/ \E a \in Agents, c \in Contents, d \in TTLs \ {None} :
          seq < MaxStores /\ Store(a, c, <<>>, d)
    \/ \E id \in Ids : Retrieve(id)
    \/ \E a \in Agents, q \in Queries, l \in 0..MaxStores :
          Search(a, q, None, l)
    \/ \E id \in Ids, a \in Agents : Delete(id, a)
    \/ \E a \in Agents : Stats(a)
    \/ ReclaimExpired
    \/ Tick

\* The record store driven through the methods of MemoryDatabase.
SpecDb == InitDb /\ [][NextDb]_vars

\* Search over up to MaxSearchStores records that never expire.
InitSearch ==
    /\ InitDb
    /\ tz = 0

NextSearch ==
    \/ \E a \in Agents, c \in Contents, t \in TagLists :
          seq < MaxSearchStores /\ Store(a, c, t, Some(0))
    \/ \E a \in Agents, q \in Queries, t \in TagFilters, l \in 0..MaxSearchStores :
          Search(a, q, t, l)
    \/ \E id \in 0..MaxSearchStores, a \in Agents : Delete(id, a)

SpecSearch == InitSearch /\ [][NextSearch]_vars

\* Reads of records whose key was lost; nothing expires.
InitCipher ==
    /\ InitDb
    /\ tz = 0

NextCipher ==
    \/ \E a \in Agents, c \in Contents :
          seq < MaxStores /\ Store(a, c, <<>>, Some(0))
    \/ Restart
    \/ \E id \in 1..MaxStores : Retrieve(id)
    \/ \E a \in Agents, q \in Queries : Search(a, q, None, DefaultLimit)
    \/ \E a \in Agents : Stats(a)

SpecCipher == InitCipher /\ [][NextCipher]_vars

\* Reads of one owner's records as they expire, the local clock on UTC.
InitReads ==
    /\ InitDb
    /\ tz = 0

NextReads ==
    \/ \E c \in Contents, d \in {Some(0), Some(1)} :
          seq < MaxStores /\ Store("a1", c, <<>>, d)
    \/ \E id \in 1..MaxStores : Retrieve(id)
    \/ Search("a1", <<"h">>, None, DefaultLimit)
    \/ Stats("a1")
    \/ Tick

SpecReads == InitReads /\ [][NextReads]_vars

\* ----------------------------------------------------------- handlers
\* is_authorized = await verify_payment_token(authorization)
Gate(authorization) == verify_payment_token(credits, authorization, DefaultCost)

\* The gate's effect on the ledger, and the history of what it debited.
Charge(authorization) ==
    LET g == Gate(authorization) IN
    /\ credits' = g.bal
    /\ debited' = IF g.ok
                  THEN [debited EXCEPT ![authorization[2]] = @ + DefaultCost]
                  ELSE debited
    /\ UNCHANGED initial

\* POST /memory/store
StoreMemory(authorization, agent_id, content, tags, ttl_days) ==
    LET g == Gate(authorization)
        r == store_memory(Db, agent_id, content, tags, ttl_days)
    IN
    /\ seq < MaxStores
    /\ Charge(authorization)
    /\ IF ~g.ok
       THEN /\ response' = [op |-> "store", status |-> 402, body |-> None]
            /\ UNCHANGED <<memories, agents, seq, nStored>>
       ELSE IF r.raised
       THEN /\ response' = [op |-> "store", status |-> 500, body |-> None]
            /\ UNCHANGED <<memories, agents, seq, nStored>>
       ELSE /\ WriteDb(r.db)
            /\ seq' = seq + 1
            /\ nStored' = [nStored EXCEPT ![agent_id] = @ + 1]
            /\ response' = [op |-> "store", status |-> 200, body |-> r.ret]
    /\ UNCHANGED <<now, tz, nDeleted>>

\* GET /memory/{memory_id}
RetrieveMemory(authorization, memory_id) ==
    LET g == Gate(authorization)
        r == retrieve_memory(Db, memory_id)
    IN
    /\ Charge(authorization)
    /\ IF ~g.ok
       THEN /\ response' = [op |-> "retrieve", status |-> 402, body |-> None]
            /\ UNCHANGED <<memories, agents>>
       ELSE /\ WriteDb(r.db)
            /\ response' = [op |-> "retrieve",
                            status |-> IF r.ret = None THEN 404 ELSE 200,
                            body |-> r.ret]
    /\ UNCHANGED <<now, tz, seq, nStored, nDeleted>>

\* POST /memory/search
SearchMemories(authorization, agent_id, query, tags, limit) ==
    LET g == Gate(authorization)
        \* limit=search.limit or 10
        lim == IF limit = None \/ limit[1] = 0 THEN DefaultLimit ELSE limit[1]
    IN
    /\ Charge(authorization)
    /\ IF ~g.ok
       THEN response' = [op |-> "search", status |-> 402, body |-> None]
       ELSE response' = [op |-> "search", status |-> 200,
                         body |-> search_memories(Db, agent_id, query, tags, lim)]
    /\ UNCHANGED <<memories, agents, now, tz, seq, nStored, nDeleted>>

\* A delete handler that calls the store before it looks at the gate's answer.
DeleteMemory_StoreFirst(authorization, memory_id, agent_id) ==
    LET g == Gate(authorization)
        r == delete_memory(Db, memory_id, agent_id)
    IN
    /\ Charge(authorization)
    /\ WriteDb(r.db)
    /\ nDeleted' = IF r.ret
                   THEN [nDeleted EXCEPT ![agent_id] = @ + 1]
                   ELSE nDeleted
    /\ response' = [op |-> "delete",
                    status |-> IF ~g.ok THEN 401
                               ELSE IF r.ret THEN 200 ELSE 404,
                    body |-> g.ok /\ r.ret]
    /\ UNCHANGED <<now, tz, seq, nStored>>

\* DELETE /memory/{memory_id}
DeleteMemory(authorization, memory_id, agent_id) ==
    LET g == Gate(authorization)
        r == delete_memory(Db, memory_id, agent_id)
    IN
    /\ Charge(authorization)
    /\ IF ~g.ok
       THEN /\ response' = [op |-> "delete", status |-> 401, body |-> FALSE]
            /\ UNCHANGED <<memories, agents, nDeleted>>
       ELSE /\ WriteDb(r.db)
            /\ nDeleted' = IF r.ret
                           THEN [nDeleted EXCEPT ![agent_id] = @ + 1]
                           ELSE nDeleted
            /\ response' = [op |-> "delete",
                            status |-> IF r.ret THEN 200 ELSE 404,
                            body |-> r.ret]
    /\ UNCHANGED <<now, tz, seq, nStored>>

\* GET /agent/{agent_id}/stats: no gate.
GetAgentStats(agent_id) ==
    LET stats == get_agent_stats(Db, agent_id) IN
    /\ response' = [op |-> "stats", status |-> 200,
                    body |-> IF stats = None
                             THEN Some([agent_id |-> agent_id,
                                        active_memories |-> 0,
                                        total_memories_stored |-> 0,
                                        storage_used |-> 0])
                             ELSE stats]
    /\ UNCHANGED <<Ledger, memories, agents, now, tz, seq, nStored, nDeleted>>

\* POST /admin/cleanup
CleanupExpired(is_admin) ==
    LET r == cleanup_expired(Db) IN
    /\ IF ~is_admin
       THEN /\ response' = [op |-> "cleanup", status |-> 403, body |-> 0]
            /\ UNCHANGED <<memories, agents>>
       ELSE /\ WriteDb(r.db)
            /\ response' = [op |-> "cleanup", status |-> 200, body |-> r.ret]
    /\ UNCHANGED <<Ledger, now, tz, seq, nStored, nDeleted>>

\* Requests the service is driven with: every kind of credential, records
\* that never expire.
ReqTTLs == {None, Some(0)}
ReqLimits == {None, Some(1)}

Init ==
    /\ InitStore
    /\ tz = 0
    /\ credits = [k \in Keys |-> IF k = "k1" THEN MaxCredits ELSE 1]
    /\ initial = credits
    /\ debited = [k \in Keys |-> 0]

Next ==
    \/ \E au \in Auths, a \in Agents, c \in Contents, d \in ReqTTLs :
          StoreMemory(au, a, c, <<>>, d)
    \/ \E au \in Auths, id \in Ids : RetrieveMemory(au, id)
    \/ \E au \in Auths, a \in Agents, l \in ReqLimits :
          SearchMemories(au, a, None, None, l)
    \/ \E au \in Auths, id \in Ids, a \in Agents : DeleteMemory(au, id, a)
    \/ \E a \in Agents : GetAgentStats(a)
    \/ \E ad \in BOOLEAN : CleanupExpired(ad)

\* The service driven through its HTTP handlers.
Spec == Init /\ [][Next]_vars

\* ===================================================== claims: the gate
Bearer(k) == <<"Bearer ", k>>

\* A handler that passes the gate ran with this Authorization header.  (The
\* first conjunct of each case is implied by the handler and only orders the
\* evaluation.)
Handled(au) ==
    /\ credits' = Gate(au).bal
    /\ \/ /\ response'.op = "store"
          /\ \E a \in Agents, c \in Contents, d \in ReqTTLs :
                StoreMemory(au, a, c, <<>>, d)
       \/ /\ response'.op = "retrieve"
          /\ \E id \in Ids : RetrieveMemory(au, id)
       \/ /\ response'.op = "search"
          /\ \E a \in Agents, l \in ReqLimits :
                SearchMemories(au, a, None, None, l)
       \/ /\ response'.op = "delete"
          /\ \E id \in Ids, a \in Agents : DeleteMemory(au, id, a)

DenialStatus == {401, 402}

\* C1: whatever the order in which the handlers of concurrent requests run, no
\* balance is ever negative, the credits debited from a key by granted
\* authorizations never exceed its initial balance (they are exactly what the
\* balance lost), and a debit is granted exactly when the balance covers it:
\* from balance 1, one debit of 1 is granted, the balance is then 0 and every
\* further debit is denied.
C1_NoDoubleSpend ==
    \A k \in Keys :
        /\ credits[k] >= 0
        /\ debited[k] <= initial[k]
        /\ debited[k] + credits[k] = initial[k]
        /\ Gate(Bearer(k)).ok <=> credits[k] >= DefaultCost

\* One debit was granted on an account that started with one credit, and a
\* later request was denied.
C1_Witness ==
    /\ initial["k2"] = 1
    /\ debited["k2"] = 1
    /\ credits["k2"] = 0
    /\ response.status \in DenialStatus

\* C2: a handler whose credential is missing, lacks the "Bearer " prefix,
\* names an unknown key or names a key whose balance is below the cost is
\* denied and leaves every balance unchanged; any other is granted, and then
\* the key's balance has dropped by exactly the cost and no other balance has
\* changed.
C2_FailClosed ==
    [][\A au \in Auths : Handled(au) =>
          IF \/ au = None
             \/ au[1] # "Bearer "
             \/ au[2] \notin Keys
             \/ credits[au[2]] < DefaultCost
          THEN /\ response'.status \in DenialStatus
               /\ credits' = credits
          ELSE /\ response'.status \notin DenialStatus
               /\ credits' = [credits EXCEPT ![au[2]] = @ - DefaultCost]]_vars

\* A store was granted to k1: its balance dropped by one, k2's did not move.
C2_Witness ==
    /\ response.op = "store"
    /\ response.status = 200
    /\ debited = [k \in Keys |-> IF k = "k1" THEN 1 ELSE 0]
    /\ credits["k1"] = initial["k1"] - 1
    /\ initial["k2"] > 0
    /\ credits["k2"] = initial["k2"]

\* ============================================== claims: the record store
\* expires_at is earlier than the current time, in the frame (UTC) in which
\* store_memory computed it.
ExpiryPassed(memory) ==
    memory.expires_at # None /\ memory.expires_at[1] < UtcNow

Listed(results, memory_id) ==
    \E j \in 1..Len(results) : results[j].memory_id = memory_id

OwnedBy(agent_id) == {i \in 1..Len(memories) : memories[i].agent_id = agent_id}

\* C3: a stored record whose expires_at is earlier than the current time is
\* absent from every read path: Retrieve of its id returns not-found, no
\* Search for its owner lists it, and Stats counts at most the owner's
\* records whose expiry has not passed.
C3_ExpiredAbsentFromReads ==
    \A i \in 1..Len(memories) :
        LET m == memories[i] IN
        ExpiryPassed(m) =>
            /\ retrieve_memory(Db, m.memory_id).ret = None
            /\ \A q \in Queries, t \in TagFilters, l \in 1..MaxStores :
                  ~Listed(search_memories(Db, m.agent_id, q, t, l), m.memory_id)
            /\ get_agent_stats(Db, m.agent_id)[1].active_memories
                  <= Cardinality({j \in OwnedBy(m.agent_id) :
                                     ~ExpiryPassed(memories[j])})

C4_Retrievability ==
    \A i \in 1..Len(memories) :
        LET m == memories[i] IN
        /\ ExpiryPassed(m) => retrieve_memory(Db, m.memory_id).ret = None
        /\ (m.expires_at = None) => retrieve_memory(Db, m.memory_id).ret # None

\* C4: once the clock has passed creation time plus ttl (the record's
\* expires_at), a record stored with ttl > 0 is not retrievable; a record
\* stored with ttl = 0 (no expires_at) is retrievable in every state, and a
\* step removes it only if it is a Delete of its id by its owner.
C4_TtlExpiry ==
    [][/\ C4_Retrievability'
        /\ \A j \in 1..Len(memories) :
             (memories[j].expires_at = None) =>
                (\/ IndexOf(memories', memories[j].memory_id) # 0
                 \/ Delete(memories[j].memory_id, memories[j].agent_id))]_vars

\* C6: whatever the owner, the filters and the limit (0 included), Search
\* returns at most `limit` entries.
C6_AtMostLimit ==
    \A a \in Agents, q \in Queries, t \in TagFilters, l \in 0..MaxStores :
        Len(search_memories(Db, a, q, t, l)) <= l

\* C9: Delete of a record whose expires_at is in the past (in the UTC frame
\* and by the store's own clock alike), issued by its owner while the record
\* is still stored, returns failure, as Retrieve does.
C9_ExpiredDeleteNotFound ==
    \A i \in 1..Len(memories) :
        LET m == memories[i] IN
        (ExpiryPassed(m) /\ _is_expired(m.expires_at)) =>
            /\ retrieve_memory(Db, m.memory_id).ret = None
            /\ delete_memory(Db, m.memory_id, m.agent_id).ret = FALSE

\* C10: for every owner with an account, Stats reports total_memories_stored
\* = (stores that succeeded) - (deletes that succeeded) and active_memories =
\* the number of the owner's stored records whose expiry has not passed.
C10_Accounting ==
    \A a \in DOMAIN agents :
        LET stats == get_agent_stats(Db, a)[1] IN
        /\ stats.total_memories_stored = nStored[a] - nDeleted[a]
        /\ stats.active_memories =
              Cardinality({j \in OwnedBy(a) : ~ExpiryPassed(memories[j])})

\* --------------------------------------------------------------- search
IdsOf(results) == [j \in 1..Len(results) |-> results[j].memory_id]

Reverse(xs) == [j \in 1..Len(xs) |-> xs[Len(xs) + 1 - j]]

\* The owner's records that pass the filters, in storage order.
Matching(agent_id, query, tags) ==
    SelectSeq(memories, LAMBDA m : SearchKeeps(m, agent_id, query, tags))

FirstN(xs, n) == SubSeq(xs, 1, IF Len(xs) < n THEN Len(xs) ELSE n)

\* C5: for every owner, filter and limit >= 1, Search returns the first
\* `limit` matching records in storage order, newest first; with A, B, C
\* stored in that order and all matching, limit = 2 gives [B, A], not [C, B].
C5_CapThenSort ==
    \A a \in Agents, q \in Queries, t \in TagFilters, l \in 1..MaxSearchStores :
        IdsOf(search_memories(Db, a, q, t, l))
            = Reverse(IdsOf(FirstN(Matching(a, q, t), l)))

\* Three records of one owner with the same tags are stored, and a search
\* answered with the second and the first of them, in that order.
C5_Witness ==
    /\ Len(memories) = 3
    /\ \A i \in 1..3 : /\ memories[i].agent_id = memories[1].agent_id
                       /\ memories[i].tags = memories[1].tags
    /\ response.op = "search"
    /\ IdsOf(response.body) = <<memories[2].memory_id, memories[1].memory_id>>

SharesTag(tags, filter) ==
    \E t \in 1..Len(filter) : \E u \in 1..Len(tags) : filter[t] = tags[u]

\* C7: with a non-empty tag filter, Search (no query, no cap) lists a record
\* of the owner that the store does not treat as expired if and only if one
\* of the requested tags is among the record's tags; and under any query and
\* limit every listed record shares a tag with the filter.
C7_TagOr ==
    \A a \in Agents, f \in TagFilters \ {None, <<>>} :
        /\ \A i \in OwnedBy(a) :
              ~_is_expired(memories[i].expires_at) =>
                 (Listed(search_memories(Db, a, None, f, Len(memories) + 1),
                         memories[i].memory_id)
                    <=> SharesTag(memories[i].tags, f))
        /\ \A q \in Queries, l \in 0..MaxSearchStores :
              LET res == search_memories(Db, a, q, f, l) IN
              \A j \in 1..Len(res) : SharesTag(res[j].tags, f)

\* An untagged record and then one tagged [x, y] are stored for one owner,
\* neither expired, and a search answered with the tagged one alone: the
\* filter [y, z] kept it and dropped the untagged one.
C7_Witness ==
    /\ Len(memories) = 2
    /\ memories[1].agent_id = memories[2].agent_id
    /\ memories[1].tags = <<>>
    /\ memories[2].tags = <<"x", "y">>
    /\ ~_is_expired(memories[1].expires_at)
    /\ ~_is_expired(memories[2].expires_at)
    /\ response.op = "search"
    /\ IdsOf(response.body) = <<memories[2].memory_id>>

\* --------------------------------------------------------------- delete
StoredIds == {memories[i].memory_id : i \in 1..Len(memories)}

C8_DeleteStep ==
    \A id \in 0..MaxSearchStores, a \in Agents :
        (response'.op = "delete" /\ Delete(id, a)) =>
            /\ (\/ id \notin StoredIds
                \/ memories[IndexOf(memories, id)].agent_id # a)
                  => (response'.body = FALSE /\ UNCHANGED <<memories, agents>>)
            /\ (response'.body = TRUE) => id \notin StoredIds'

C8_Permanent ==
    \A id \in 1..seq : id \notin StoredIds => id \notin StoredIds'

\* C8: a Delete of an id that is not stored, or whose record belongs to
\* another owner, returns false and changes no record and no owner counter;
\* a Delete that returns true has removed the record; and an id that was
\* issued and is no longer stored is never stored again, so a second Delete
\* of the same id returns false.
C8_DeleteOnce ==
    [][C8_DeleteStep /\ C8_Permanent]_vars

\* One record was stored and deleted, and a later Delete was answered false.
C8_Witness ==
    /\ seq >= 1
    /\ \E a \in Agents : nDeleted[a] = 1
    /\ 1 \notin StoredIds
    /\ response.op = "delete"
    /\ response.body = FALSE

\* ============================================= claims: retrieve counters
\* The step is a granted retrieve request that returned the record `id`.
C11_Counted(id) ==
    /\ response'.op = "retrieve"
    /\ response'.status = 200
    /\ response'.body[1].memory_id = id
    /\ \E au \in Auths : RetrieveMemory(au, id)

C11_Step ==
    \A i \in 1..Len(memories) :
        LET m == memories[i]
            j == IndexOf(memories', m.memory_id)
        IN  IF C11_Counted(m.memory_id)
            THEN /\ j # 0
                 /\ memories'[j].access_count = m.access_count + 1
                 /\ memories'[j].last_accessed = Some(UtcNow)
                 /\ response'.body[1].access_count = m.access_count + 1
            ELSE j # 0 => memories'[j].access_count = m.access_count

\* C11: whatever the order in which concurrent requests are handled, a
\* Retrieve that returns a record raises that record's access_count by
\* exactly 1 and sets last_accessed to now, and no other step (a Retrieve
\* that returns not-found, a Retrieve of another record, any other request)
\* changes the access_count of a record that stays stored; so access_count
\* never decreases and k successful Retrieves leave it exactly k higher.
C11_NoLostIncrement ==
    [][C11_Step]_vars

\* Two retrieves of one record were granted and both returned it: its
\* access_count is 2.
C11_Witness ==
    /\ response.op = "retrieve"
    /\ response.status = 200
    /\ response.body[1].access_count = 2
    /\ \E i \in 1..Len(memories) :
          /\ memories[i].memory_id = response.body[1].memory_id
          /\ memories[i].access_count = 2

\* C12: a Retrieve of a stored record that is not expired and whose
\* ciphertext does not decrypt (it was written under a key the process no
\* longer has) returns not-found, and leaves every record, with its
\* access_count and last_accessed, and every owner counter unchanged.
C12_UndecryptableNotFound ==
    [][\A id \in 1..MaxStores :
          LET i == IndexOf(memories, id) IN
          (/\ i # 0
           /\ ~_is_expired(memories[i].expires_at)
           /\ ~DecryptOk(memories[i].content)
           /\ response'.op = "retrieve"
           /\ Retrieve(id))
          => /\ response'.status = 404
             /\ response'.body = None
             /\ UNCHANGED <<memories, agents>>]_vars

\* Every id the store can issue is stored, one of the records lost its key
\* without ever having been read, and the last Retrieve (of a stored id,
\* then) was answered not-found.
C12_Witness ==
    /\ Len(memories) = MaxStores
    /\ response.op = "retrieve"
    /\ response.status = 404
    /\ \E i \in 1..Len(memories) :
          /\ ~DecryptOk(memories[i].content)
          /\ ~_is_expired(memories[i].expires_at)
          /\ memories[i].access_count = 0
          /\ memories[i].last_accessed = None

\* =========================================== claims: gate and operation
\* C13: no credit is debited for a store, retrieve or search request whose
\* operation did not take effect: a handler step that lowers a balance is
\* one whose operation succeeded (the record was stored, the record was
\* returned, the search was answered).
C13_AllOrNothing ==
    [][(/\ response'.op \in {"store", "retrieve", "search"}
        /\ credits' # credits)
       => response'.status = 200]_vars

\* C14: a delete request, whether it succeeds or returns not-found, leaves
\* every balance unchanged, and a holder of a valid key is granted it
\* whatever the key's balance.
C14_DeleteFree ==
    [][\A au \in Auths, id \in Ids, a \in Agents :
          (response'.op = "delete" /\ DeleteMemory(au, id, a))
          => /\ credits' = credits
             /\ (au # None /\ au[1] = "Bearer " /\ au[2] \in Keys)
                   => response'.status \notin DenialStatus]_vars

\* C15: a store, retrieve, search or delete request that the gate denies is
\* answered with a denial and leaves every record and every owner counter
\* unchanged: the store is reached only after the gate has granted.
C15_GateBeforeStore ==
    [][\A au \in Auths :
          (Handled(au) /\ ~Gate(au).ok)
          => /\ response'.status \in DenialStatus
             /\ UNCHANGED <<memories, agents>>]_vars

\* A delete request was denied while a record was stored, and no record has
\* ever been deleted.
C15_Witness ==
    /\ Len(memories) >= 1
    /\ response.op = "delete"
    /\ response.status = 401
    /\ \A a \in Agents : nDeleted[a] = 0
    /\ \A a \in DOMAIN agents : agents[a].total_memories = nStored[a]

\* A credential the gate rejects without consulting a balance: missing,
\* without the "Bearer " prefix, or naming an unknown key.
BadCredential(au) ==
    \/ au = None
    \/ au[1] # "Bearer "
    \/ au[2] \notin Keys

\* C16: when a valid key's balance is below the cost, what the gate reports
\* for it differs from what it reports for a missing, malformed or unknown
\* credential.
C16_DistinctInsufficient ==
    \A k \in Keys :
        credits[k] < DefaultCost =>
            \A au \in Auths :
                BadCredential(au) => Gate(Bearer(k)) # Gate(au)

\* ======================================================= claims: expiry
\* C17: whatever the offset of the host's local clock from UTC, the store
\* treats a record as expired exactly when the UTC time elapsed since it was
\* stored exceeds its ttl, that is when the UTC clock has passed the
\* expires_at that store_memory computed from the UTC clock.
C17_SameFrame ==
    \A i \in 1..Len(memories) :
        _is_expired(memories[i].expires_at) <=> ExpiryPassed(memories[i])

\* The records whose expires_at the clock has not passed, in storage order.
Unexpired(ms) == SelectSeq(ms, LAMBDA m : ~ExpiryPassed(m))

\* C18: ReclaimExpired removes exactly the records whose expires_at is in
\* the past at the time of the call and returns how many it removed; and a
\* removal by expiry, by ReclaimExpired or inside Retrieve, leaves every
\* owner's total_memories and storage_used unchanged.
C18_ReclaimExact ==
    [][/\ (response'.op = "cleanup" /\ ReclaimExpired)
          => /\ memories' = Unexpired(memories)
             /\ response'.body = Len(memories) - Len(Unexpired(memories))
             /\ agents' = agents
       /\ \A id \in Ids :
             (response'.op = "retrieve" /\ Retrieve(id)) => agents' = agents]_vars

\* ================================================== claims: read paths
\* C19: a Search or a Stats call leaves the stored records, those that have
\* expired and are still in the store included, with their access_count and
\* last_accessed, and every owner counter unchanged.
C19_ReadOnly ==
    [][/\ (response'.op = "search"
           /\ \E a \in Agents : Search(a, <<"h">>, None, DefaultLimit))
          => UNCHANGED <<memories, agents>>
       /\ (response'.op = "stats" /\ \E a \in Agents : Stats(a))
          => UNCHANGED <<memories, agents>>]_vars

\* Two records of one owner are stored, the first has expired and is still
\* in the store, and a search was answered with the second alone.
C19_Witness ==
    /\ Len(memories) = 2
    /\ memories[1].agent_id = memories[2].agent_id
    /\ _is_expired(memories[1].expires_at)
    /\ ExpiryPassed(memories[1])
    /\ ~_is_expired(memories[2].expires_at)
    /\ response.op = "search"
    /\ IdsOf(response.body) = <<memories[2].memory_id>>

\* ================================================= claims: delete races
\* The response of the step returns or lists the record `id`.
C20_Returned(id) ==
    \/ /\ response'.op = "retrieve"
       /\ response'.status = 200
       /\ response'.body[1].memory_id = id
    \/ /\ response'.op = "search"
       /\ response'.status = 200
       /\ Listed(response'.body, id)

C20_Step ==
    /\ \A id \in Ids :
          (/\ response'.op = "delete"
           /\ response'.status = 200
           /\ \E au \in Auths, a \in Agents : DeleteMemory(au, id, a))
          => id \notin StoredIds'
    /\ \A id \in 1..seq :
          id \notin StoredIds => (id \notin StoredIds' /\ ~C20_Returned(id))

\* Stats counts an owner's stored records, each once, and so does the
\* owner's counter (no record of Spec expires).
C20_CountedOnce ==
    \A a \in DOMAIN agents :
        /\ get_agent_stats(Db, a)[1].active_memories = Cardinality(OwnedBy(a))
        /\ agents[a].total_memories = Cardinality(OwnedBy(a))

\* C20: in whatever order the handlers of racing requests (deletes,
\* retrieves, stores, searches) run, a Delete that returns success has
\* removed the record; a record that was issued and is no longer stored is
\* never stored again, whatever later request writes the store back, and no
\* later Retrieve or Search returns it; and Stats counts exactly the records
\* still stored.
C20_DeleteWins ==
    []C20_CountedOnce /\ [][C20_Step]_vars

\* An owner stored two records and deleted the first; a later search for
\* that owner (which would have listed the first record, had it been there)
\* was answered with the second alone.
C20_Witness ==
    /\ seq = 2
    /\ StoredIds = {2}
    /\ \E a \in Agents : nStored[a] = 2 /\ nDeleted[a] = 1
    /\ response.op = "search"
    /\ response.status = 200
    /\ IdsOf(response.body) = <<2>>

\* ================================================ claims: owner counters
\* C21: in every reachable state every record's owner has an account, and
\* each owner's total_memories_stored is non-negative and at least the
\* number of that owner's records in the store, hence at least the
\* active_memories that Stats reports.
C21_TotalCoversStored ==
    /\ \A i \in 1..Len(memories) : memories[i].agent_id \in DOMAIN agents
    /\ \A a \in DOMAIN agents :
          LET stats == get_agent_stats(Db, a)[1] IN
          /\ stats.total_memories_stored = agents[a].total_memories
          /\ stats.total_memories_stored >= 0
          /\ stats.total_memories_stored >= Cardinality(OwnedBy(a))
          /\ stats.total_memories_stored >= stats.active_memories

\* An owner stored one record and deleted none; the record expired and a
\* reclaim removed it: the counter still says 1 and the store holds nothing.
C21_Witness ==
    /\ response.op = "cleanup"
    /\ response.body = 1
    /\ memories = <<>>
    /\ \E a \in DOMAIN agents :
          /\ nStored[a] = 1
          /\ nDeleted[a] = 0
          /\ agents[a].total_memories = 1
          /\ get_agent_stats(Db, a)[1].active_memories = 0

====
